---- MODULE Spec2Model ----
(***************************************************************************)
(* VedicVault blog backend: the six request handlers of src/main.py and    *)
(* src/api/main.py over one MongoDB collection (db.blogs).                  *)
(*                                                                          *)
(* Every handler is a coroutine: it runs without interruption up to an      *)
(* `await` of a store call, and other requests run while it waits.  One     *)
(* action models one such uninterrupted stretch together with the store     *)
(* call that ends the wait before it.  The store applies every call         *)
(* atomically on one document.                                              *)
(***************************************************************************)
EXTENDS Integers, Sequences, FiniteSets, TLC

(* ----------------------------- bounds ---------------------------------- *)
MaxClock   == 2      \* the wall clock runs over 0..MaxClock
TicksPerMs == 2      \* clock ticks per millisecond (the store keeps milliseconds)
MaxDelta   == 1      \* PATCH deltas range over 1..MaxDelta
MaxCount   == 2      \* a counter is not incremented beyond this value

\* two requests can be in flight at once
Clients == {"c1", "c2"}

\* the ids ObjectId() can return, each at most once
ObjectIds == {"id1"}

\* a well-formed id that ObjectId() never returns
NeverId == "id0"

VARIABLES
    variant,   \* "main": src/main.py is deployed; "api": src/api/main.py
    clock,     \* the wall clock read by datetime.now(ist)
    issued,    \* the ids ObjectId() has returned
    store,     \* db.blogs: _id -> document (a function on the document's keys)
    req,       \* per client: the locals of its request in flight
    resp,      \* the response sent by the step just taken, NoResponse if none
    incs       \* history: per stored document, the sum of the deltas of the
               \* PATCH requests whose update_one matched it

vars == <<variant, clock, issued, store, req, resp, incs>>

(* --------------------------- input domains ------------------------------ *)
UpdateFields == {"title", "content", "author", "tags"}
StatsFields  == {"views", "likes"}
BlogFields   == {"title", "content", "author", "tags", "views", "likes",
                 "createdAt", "updatedAt"}

Restrict(f, S) == [k \in S |-> f[k]]

PayloadA == [title |-> "a", content |-> "a", author |-> "a", tags |-> <<>>]
PayloadB == [title |-> "b", content |-> "b", author |-> "b", tags |-> <<"x">>]

\* BlogCreate: all four fields are required
CreatePayloads == {PayloadA, PayloadB}

\* BlogUpdate.dict(exclude_unset=True): any subset of the four fields
UpdatePayloads ==
    {Restrict(PayloadA, {}), Restrict(PayloadA, {"title"}),
     Restrict(PayloadB, {"title"}), Restrict(PayloadB, {"content", "tags"})}

\* BlogStatsUpdate.dict(exclude_unset=True): views and/or likes, deltas >= 0
StatsKeySets == {{}, {"likes"}, {"views", "likes"}}
StatsPayloads ==
    UNION {[S -> 1..MaxDelta] : S \in StatsKeySets}

\* the ids a client can name: those ObjectId() has returned, and one it never
\* returns
KnownIds == issued \cup {NeverId}

(* ------------------------- the document store --------------------------- *)
None == <<>>

\* bson encodes a datetime as whole milliseconds
Millis(t) == (t \div TicksPerMs) * TicksPerMs

Encode(doc) ==
    [k \in DOMAIN doc |->
        IF k \in {"createdAt", "updatedAt"} THEN Millis(doc[k]) ELSE doc[k]]

\* collection.find_one({"_id": id})
find_one(s, id) == IF id \in DOMAIN s THEN s[id] ELSE None

\* collection.insert_one(doc)
insert_one(s, id, doc) ==
    [k \in DOMAIN s \cup {id} |-> IF k = id THEN Encode(doc) ELSE s[k]]

\* dict(d, **e): the keys of both, the values of e winning
Merge(d, e) ==
    [k \in DOMAIN d \cup DOMAIN e |-> IF k \in DOMAIN e THEN e[k] ELSE d[k]]

\* the update document without its "$set" operator: a replacement document
ApplySetReplace(doc, fields) == Encode(fields)

\* {"$set": fields} on one document
ApplySet(doc, fields) == Merge(doc, Encode(fields))

\* the increment passed under "$set": an absolute overwrite
ApplyIncOverwrite(doc, increment) == Merge(doc, increment)

\* {"$inc": increment} on one document: a missing field counts as 0
ApplyInc(doc, increment) ==
    [k \in DOMAIN doc \cup DOMAIN increment |->
        IF k \in DOMAIN increment
        THEN (IF k \in DOMAIN doc THEN doc[k] ELSE 0) + increment[k]
        ELSE doc[k]]

\* collection.update_one({"_id": id}, {"$inc": increment, "$set": fields}):
\* the new collection and the UpdateResult
update_one(s, id, increment, fields) ==
    IF id \notin DOMAIN s
    THEN [store |-> s, matched_count |-> 0, modified_count |-> 0]
    ELSE LET new == ApplySet(ApplyInc(s[id], increment), fields)
         IN  [store |-> [s EXCEPT ![id] = new],
              matched_count |-> 1,
              modified_count |-> IF new = s[id] THEN 0 ELSE 1]

\* collection.delete_one({"_id": id}): the new collection and the DeleteResult
delete_one(s, id) ==
    IF id \notin DOMAIN s
    THEN [store |-> s, deleted_count |-> 0]
    ELSE [store |-> Restrict(s, DOMAIN s \ {id}), deleted_count |-> 1]

(* ----------------------------- the handlers ----------------------------- *)
\* Blog(**doc): the declared fields, views and likes defaulting to 0
Blog(doc) ==
    [k \in BlogFields |->
        IF k \in DOMAIN doc THEN doc[k] ELSE 0]

\* Blog(**doc) raises when a required field is missing, or doc is None
BlogRaises(doc) ==
    ~ (BlogFields \ StatsFields \subseteq DOMAIN doc)

HTTPException(status_code, detail) ==
    [status_code |-> status_code, detail |-> detail]

TypeError == [status_code |-> 0, detail |-> "TypeError"]

\* `except Exception as e: raise HTTPException(status_code=500,
\* detail=str(e))` around every handler body.  HTTPException is an
\* Exception: one raised inside the try block is caught here as well.
except_Exception(e) == HTTPException(500, e.detail)

Idle == [pc |-> "idle", op |-> "none", id |-> NeverId, body |-> None,
         now |-> 0, result |-> None]

NoResponse == [op |-> "none"]

\* a request arrives at a client that has none in flight
Fresh(c) == req[c].pc = "idle"

\* request r awaits its second store call; the locals it no longer reads
\* (the payload, the clock reading) are dropped
Await(r, pc) == [r EXCEPT !.pc = pc, !.body = None, !.now = 0]

\* the handler of request r returns ret
Returns(r, ret) ==
    [op |-> r.op, id |-> r.id, body |-> r.body, result |-> r.result,
     status |-> 200, detail |-> "", ret |-> ret]

\* the handler of request r raises e inside its try block
Raises(r, e) ==
    [op |-> r.op, id |-> r.id, body |-> None, result |-> r.result,
     status |-> except_Exception(e).status_code,
     detail |-> except_Exception(e).detail, ret |-> None]

\* update_data['updatedAt'] left at the epoch instead of the clock reading
set_updatedAt_epoch(update_data, now) ==
    Merge(update_data, [updatedAt |-> 0])

\* update_data['updatedAt'] = datetime.now(ist)
set_updatedAt(update_data, now) ==
    Merge(update_data, [updatedAt |-> now])

Init ==
    /\ variant \in {"main", "api"}
    /\ clock = 0
    /\ issued = {}
    /\ store = None
    /\ req = [c \in Clients |-> Idle]
    /\ resp = NoResponse
    /\ incs = None

Tick ==
    /\ clock < MaxClock
    /\ clock' = clock + 1
    /\ resp' = NoResponse
    /\ UNCHANGED <<variant, issued, store, req, incs>>

\* GET /{id}
get_blog(c, id) ==
    /\ Fresh(c)
    /\ LET blog == find_one(store, id)
           r    == [Idle EXCEPT !.op = "GET", !.id = id, !.result = blog]
       IN  resp' = IF blog = None
                   THEN Raises(r, HTTPException(404, "Blog not found"))
                   ELSE Returns(r, Blog(blog))
    /\ UNCHANGED <<variant, clock, issued, store, req, incs>>

\* POST /: up to the await of insert_one
create_blog(c, blog, oid) ==
    /\ Fresh(c)
    /\ oid \notin issued
    /\ issued' = issued \cup {oid}
    /\ LET stamps    == [createdAt |-> clock, updatedAt |-> clock]
           counters  == IF variant = "api" THEN [views |-> 0, likes |-> 0]
                        ELSE None
           blog_data == Merge(Merge(blog, stamps), counters)
       IN  req' = [req EXCEPT ![c] =
                [Idle EXCEPT !.pc = "insert_one", !.op = "POST",
                             !.id = oid, !.now = clock, !.body = blog_data]]
    /\ resp' = NoResponse
    /\ UNCHANGED <<variant, clock, store, incs>>

\* POST /: insert_one and the return
create_blog_insert(c) ==
    /\ req[c].pc = "insert_one"
    /\ store' = insert_one(store, req[c].id, req[c].body)
    /\ incs' = [id \in DOMAIN store' |->
                 IF id = req[c].id THEN [views |-> 0, likes |-> 0]
                 ELSE incs[id]]
    /\ resp' = Returns(req[c], Blog(req[c].body))
    /\ req' = [req EXCEPT ![c] = Idle]
    /\ UNCHANGED <<variant, clock, issued>>

\* PUT /{id}: up to the await of update_one
update_blog(c, id, blog_update) ==
    /\ Fresh(c)
    /\ LET r == [Idle EXCEPT !.op = "PUT", !.id = id, !.body = blog_update]
       IN  IF blog_update = None
           THEN /\ resp' = Raises(r, HTTPException(400,
                                      "No data provided for update"))
                /\ req' = req
           ELSE /\ resp' = NoResponse
                /\ req' = [req EXCEPT ![c] =
                        [r EXCEPT !.pc = "update_one", !.now = clock]]
    /\ UNCHANGED <<variant, clock, issued, store, incs>>

\* PUT /{id}: update_one and the test of its result
update_blog_update(c) ==
    /\ req[c].pc = "update_one"
    /\ req[c].op = "PUT"
    /\ LET update_data == set_updatedAt(req[c].body, req[c].now)
           res == update_one(store, req[c].id, None, update_data)
           result == [matched_count  |-> res.matched_count,
                      modified_count |-> res.modified_count]
           r == [req[c] EXCEPT !.result = result]
       IN  /\ store' = res.store
           /\ IF result.modified_count = 0
              THEN /\ resp' = Raises(r, HTTPException(404, "Blog not found"))
                   /\ req' = [req EXCEPT ![c] = Idle]
              ELSE /\ resp' = NoResponse
                   /\ req' = [req EXCEPT ![c] = Await(r, "find_one")]
    /\ UNCHANGED <<variant, clock, issued, incs>>

\* DELETE /{id}
delete_blog(c, id) ==
    /\ Fresh(c)
    /\ LET res == delete_one(store, id)
           result == [deleted_count |-> res.deleted_count]
           r == [Idle EXCEPT !.op = "DELETE", !.id = id, !.result = result]
       IN  /\ store' = res.store
           /\ incs' = Restrict(incs, DOMAIN res.store)
           /\ resp' = IF result.deleted_count = 0
                      THEN Raises(r, HTTPException(404, "Blog not found"))
                      ELSE Returns(r, IF variant = "main"
                                      THEN [status |-> "success"]
                                      ELSE None)
    /\ UNCHANGED <<variant, clock, issued, req>>

\* PATCH /{id}: up to the await of update_one
update_blog_stats(c, id, stats) ==
    /\ Fresh(c)
    /\ LET increment == Restrict(stats, DOMAIN stats \cap StatsFields)
           r == [Idle EXCEPT !.op = "PATCH", !.id = id, !.body = increment]
       IN  IF stats = None \/ increment = None
           THEN /\ resp' = Raises(r, HTTPException(400,
                                IF stats = None THEN "No stats provided"
                                ELSE "No valid stats provided"))
                /\ req' = req
           ELSE /\ resp' = NoResponse
                /\ req' = [req EXCEPT ![c] =
                        [r EXCEPT !.pc = "update_one", !.now = clock]]
    /\ UNCHANGED <<variant, clock, issued, store, incs>>

\* the counters of the document stay within the model's range
WithinCount(id, increment) ==
    id \in DOMAIN store =>
        \A k \in DOMAIN increment :
            incs[id][k] + increment[k] <= MaxCount

\* PATCH /{id}: update_one and the test of its result
update_blog_stats_update(c) ==
    /\ req[c].pc = "update_one"
    /\ req[c].op = "PATCH"
    /\ WithinCount(req[c].id, req[c].body)
    /\ LET increment == req[c].body
           res == update_one(store, req[c].id, increment,
                             set_updatedAt(None, req[c].now))
           result == [matched_count  |-> res.matched_count,
                      modified_count |-> res.modified_count]
           r == [req[c] EXCEPT !.result = result]
       IN  /\ store' = res.store
           /\ incs' = IF result.matched_count = 0 THEN incs
                      ELSE [incs EXCEPT ![req[c].id] =
                              [k \in StatsFields |->
                                 IF k \in DOMAIN increment
                                 THEN @[k] + increment[k] ELSE @[k]]]
           /\ IF result.matched_count = 0
              THEN /\ resp' = Raises(r, HTTPException(404, "Blog not found"))
                   /\ req' = [req EXCEPT ![c] = Idle]
              ELSE /\ resp' = NoResponse
                   /\ req' = [req EXCEPT ![c] = Await(r, "find_one")]
    /\ UNCHANGED <<variant, clock, issued>>

\* PUT and PATCH: find_one after the update, and the return
return_updated(c) ==
    /\ req[c].pc = "find_one"
    /\ LET updated_blog == find_one(store, req[c].id)
       IN  resp' = IF BlogRaises(updated_blog)
                   THEN Raises(req[c], TypeError)
                   ELSE Returns(req[c], Blog(updated_blog))
    /\ req' = [req EXCEPT ![c] = Idle]
    /\ UNCHANGED <<variant, clock, issued, store, incs>>

\* GET and DELETE name any known id; PUT and PATCH name generated ids, whose
\* record may be not yet inserted, present, or deleted.
Next ==
    \/ Tick
    \/ \E c \in Clients, id \in KnownIds : get_blog(c, id)
    \/ \E c \in Clients, blog \in CreatePayloads, oid \in ObjectIds :
            create_blog(c, blog, oid)
    \/ \E c \in Clients : create_blog_insert(c)
    \/ \E c \in Clients, id \in issued, u \in UpdatePayloads :
            update_blog(c, id, u)
    \/ \E c \in Clients : update_blog_update(c)
    \/ \E c \in Clients, id \in KnownIds : delete_blog(c, id)
    \/ \E c \in Clients, id \in issued, st \in StatsPayloads :
            update_blog_stats(c, id, st)
    \/ \E c \in Clients : update_blog_stats_update(c)
    \/ \E c \in Clients : return_updated(c)

Spec == Init /\ [][Next]_vars

(* ------------------------------ the claims ------------------------------ *)
\* a counter as the handlers read it: Blog's default for a missing field is 0
Counter(doc, k) == IF k \in DOMAIN doc THEN doc[k] ELSE 0

\* client c's update_one is the step being taken
UpdateStep(c, op) ==
    /\ req[c].pc = "update_one"
    /\ req[c].op = op
    /\ req'[c].pc # "update_one"

\* C1: a GET of an id with no record (never created, or deleted) responds 404,
\* never a 500.
C1_GetMissingIs404 ==
    (resp.op = "GET" /\ resp.result = None) => resp.status = 404

\* C2: a DELETE of an id with no record responds 404; a successful DELETE
\* leaves no record under the id, so that every later DELETE of it is of the
\* first kind.
C2_DeleteMissingIs404 ==
    resp.op = "DELETE" =>
        /\ resp.id \notin DOMAIN store
        /\ resp.result.deleted_count = 0 => resp.status = 404
        /\ resp.result.deleted_count = 1 => resp.status = 200

\* C3: the stored views and likes of every record equal their value at
\* creation (0, a missing counter reading as 0) plus the sum of the deltas of
\* all PATCH requests applied to it, whatever the interleaving.
C3_StatsAdditive ==
    \A id \in DOMAIN store : \A k \in StatsFields :
        Counter(store[id], k) = incs[id][k]

\* C3 witness: two PATCH requests on the same record are in flight at once,
\* both applied and neither answered, and the likes are the sum of the two.
C3_Witness ==
    \E id \in DOMAIN store :
        /\ \A c \in Clients :
              req[c].pc = "find_one" /\ req[c].op = "PATCH" /\ req[c].id = id
        /\ Counter(store[id], "likes") = 2

\* what a PUT of `body` read at clock reading `now` makes of document doc
PutEffect(doc, body, now) ==
    [k \in DOMAIN doc \cup DOMAIN body \cup {"updatedAt"} |->
        IF k = "updatedAt" THEN Millis(now)
        ELSE IF k \in DOMAIN body THEN body[k] ELSE doc[k]]

\* C4 (amended): the update_one of a PUT on an existing record overwrites the
\* fields of the payload, sets updatedAt to the clock reading the handler took
\* before the call (in whole milliseconds), and changes no other field and no
\* other record.
C4_PutFrame ==
    [][\A c \in Clients :
          (UpdateStep(c, "PUT") /\ req[c].id \in DOMAIN store) =>
              store' = [store EXCEPT ![req[c].id] =
                            PutEffect(@, req[c].body, req[c].now)]]_vars

\* C4 witness: a PUT of a title alone has been applied to a record whose likes
\* had been incremented, while another PUT on the same record is in flight.
C4_Witness ==
    \E id \in DOMAIN store : \E c, d \in Clients :
        /\ req[c].pc = "find_one" /\ req[c].op = "PUT" /\ req[c].id = id
        /\ req[d].pc = "update_one" /\ req[d].op = "PUT" /\ req[d].id = id
        /\ Counter(store[id], "likes") > 0
        /\ store[id].title # store[id].content

\* C4 as stated: the same, and updatedAt after the update is strictly greater
\* than before.
C4_PutAdvances ==
    [][\A c \in Clients :
          (UpdateStep(c, "PUT") /\ req[c].id \in DOMAIN store) =>
              /\ store' = [store EXCEPT ![req[c].id] =
                              PutEffect(@, req[c].body, req[c].now)]
              /\ store'[req[c].id].updatedAt > store[req[c].id].updatedAt]_vars

\* C5: a PUT with an empty body responds 400 and leaves the store unchanged.
C5_PutEmptyIs400 ==
    [][(resp'.op = "PUT" /\ resp'.detail = "No data provided for update") =>
          (resp'.status = 400 /\ store' = store)]_vars

\* C6: a request answered with an error has not changed the store.
C6_NoPartialFailure ==
    (resp.op \in {"PUT", "PATCH"} /\ resp.result # None) =>
        (resp.status >= 400 => resp.result.modified_count = 0)

\* C7: every stored record has every field.
C7_AllFieldsPopulated ==
    \A id \in DOMAIN store : DOMAIN store[id] = BlogFields

\* C8: createdAt <= updatedAt in every stored record.
C8_CreatedBeforeUpdated ==
    \A id \in DOMAIN store : store[id].createdAt <= store[id].updatedAt

\* C8 witness: two requests that read the clock at different times were
\* applied in the reverse order: one still in flight carries the reading the
\* record already passed, after the record's creation time.
C8_Witness ==
    \E id \in DOMAIN store : \E c, d \in Clients :
        /\ req[c].pc = "find_one" /\ req[c].id = id
        /\ req[d].pc = "update_one" /\ req[d].id = id
        /\ Millis(req[d].now) < store[id].updatedAt
        /\ store[id].createdAt < store[id].updatedAt

\* C9: the record POST returns has views = likes = 0 and createdAt =
\* updatedAt, carries the payload, has an id no stored record had, and is the
\* record the store then holds under that id.
C9_CreateReturnsStored ==
    [][resp'.op = "POST" =>
          /\ resp'.ret.views = 0 /\ resp'.ret.likes = 0
          /\ resp'.ret.createdAt = resp'.ret.updatedAt
          /\ \A k \in UpdateFields : resp'.ret[k] = resp'.body[k]
          /\ resp'.id \notin DOMAIN store
          /\ resp'.id \in DOMAIN store'
          /\ store'[resp'.id] = resp'.ret]_vars

\* C10: a PUT with a non-empty payload responds 404 when no record has the
\* id, and otherwise succeeds and returns the record as updated.
C10_PutNotFoundIffMissing ==
    (resp.op = "PUT" /\ resp.result # None) =>
        /\ resp.result.matched_count = 0 => resp.status = 404
        /\ resp.result.matched_count = 1 =>
              /\ resp.status = 200
              /\ resp.id \in DOMAIN store
              /\ resp.ret = Blog(store[resp.id])

====
